---- MODULE Spec2Model ----
(***************************************************************************)
(* Lifecycle controller of the lxcri container runtime (Runtime.Create,    *)
(* Load, Start, Kill, Delete) over the runtime root directory, the monitor *)
(* process, the container init process and the per-container cgroup.       *)
(*                                                                         *)
(* Every operation is one action.  It records in `last` what was called    *)
(* and what it returned, in `trace` the steps it executed with the error   *)
(* each step returned, and in `logs` what it logged.  A step that depends  *)
(* on the world outside the runtime (the backend, the kernel, a hook)      *)
(* fails when the action's fault set f names it.                           *)
(*                                                                         *)
(* Spec is the lifecycle. TimedCreate follows one call of Create step by   *)
(* step against its deadline. PureSpec applies the functions of the        *)
(* configuration compiler and of the monitor environment to their inputs.  *)
(* ListSpec is Runtime.List over the entries of the runtime root.          *)
(***************************************************************************)
EXTENDS Naturals, Sequences, FiniteSets

\* Number of steps of one operation that may fail for external reasons.
MaxFaults == 1

\* The container IDs that callers use. Containers share no state: every
\* operation reads and writes the directory, processes and cgroup of its own ID.
IDs == {"c1"}

\* specs.ContainerState values
StateCreating == "creating"
StateCreated == "created"
StateRunning == "running"
StateStopped == "stopped"
States == {StateCreating, StateCreated, StateRunning, StateStopped}

\* unix signals that callers pass to Kill
SIGKILL == "SIGKILL"
SIGTERM == "SIGTERM"
Signals == {SIGTERM, SIGKILL}

\* Files of a runtime directory.
ConfigFile == "config"
SnapshotFile == "lxcri.json"
DevicesFile == "devices.txt"

\* The sentinel error of Runtime.Load and Runtime.Delete.
ErrNotExist == "ErrNotExist"

VARIABLES
    dirs,     \* container IDs whose runtime directory exists under Runtime.Root
    files,    \* files[id]: the files in the runtime directory of id
    hooks,    \* hooks[id]: Spec.Hooks != nil in the container record of id
    status,   \* status[id]: state of the container init process ("none": no process)
    mon,      \* mon[id]: the monitor process, "none", "alive" or "exited"
    cg,       \* cg[id]: the container cgroup, "absent", "populated" or "empty"
    creates,  \* creates[id]: successful Creates of id since its directory was last removed
    last,     \* the last operation: its name, arguments, observed state and result
    trace,    \* the steps the last operation executed, in order, each <<step, error>>
    logs      \* the warnings and errors the last operation logged

vars == <<dirs, files, hooks, status, mon, cg, creates, last, trace, logs>>

\* One call of Runtime.Create followed step by step against its deadline.
VARIABLES
    pc,          \* the step the call is at: "idle", a step of Create, "returned"
    clock,       \* time elapsed since the call bound its deadline
    child,       \* the monitor subprocess of the call: "none", "alive" or "exited"
    created,     \* the monitor has raised the "container created" signal
    afterCreate, \* rt.Hooks.AfterCreate != nil
    hook,        \* the after-create hook: "none", "running" or "done"
    result,      \* what the call returned to its caller, "-" before it returns
    console,     \* the console mode of the call: ConsoleSocket and Terminal
    directives,  \* the directives set on the in-memory configuration
    rec,         \* the fields Pid and CreatedAt of the container record
    rtdir,       \* the content of the files of the runtime directory
    writes       \* how often the call has written each file

timedVars ==
    <<pc, clock, child, created, afterCreate, hook, result,
      console, directives, rec, rtdir, writes>>

\* The functions of the runtime that depend on their arguments alone.
VARIABLES
    root,     \* the names of the entries of the directory Runtime.Root
    call      \* the last function applied: its name, its input and its output

pureVars == <<root, call>>

\* No call of Create is followed step by step.
TimedIdle ==
    /\ pc = "idle" /\ clock = 0 /\ child = "none" /\ created = FALSE
    /\ afterCreate = FALSE /\ hook = "none" /\ result = "-"
    /\ console = [ConsoleSocket |-> "", Terminal |-> FALSE] /\ directives = {}
    /\ rec = [Pid |-> 0, CreatedAt |-> <<>>]
    /\ rtdir = [n \in {ConfigFile, SnapshotFile} |-> <<>>]
    /\ writes = [n \in {ConfigFile, SnapshotFile} |-> 0]

Applied(fn, in, out) == [fn |-> fn, in |-> in, out |-> out]

\* No function was applied yet.
PureIdle == root = {} /\ call = Applied("none", <<>>, <<>>)

\* The subsets of names with at most n elements.
RECURSIVE UpTo(_, _)
UpTo(names, n) ==
    IF n = 0 THEN {{}}
    ELSE LET p == UpTo(names, n - 1) IN p \cup {s \cup {x} : s \in p, x \in names}

\* The steps of one operation that fail for external reasons.
FaultSets(names) == UpTo(names, MaxFaults)

\* The error a step returns that fails only for external reasons.
Fault(step, f) == IF step \in f THEN "err" ELSE "nil"

Op(op, id, res, obs, force, sig, sent, cfg) ==
    [op |-> op, id |-> id, res |-> res, obs |-> obs, force |-> force, sig |-> sig,
     sent |-> sent, cfg |-> cfg]

\* Reading the trace of the last operation.
Steps(tr) == {tr[i][1] : i \in DOMAIN tr}
Ran(step) == step \in Steps(trace)
ErrOf(step) == {trace[i][2] : i \in {j \in DOMAIN trace : trace[j][1] = step}}
Failed(step) == \E e \in ErrOf(step) : e # "nil"
Before(a, b) ==
    \A i, j \in DOMAIN trace : (trace[i][1] = a /\ trace[j][1] = b) => i < j

----
\* os.Stat(dir) in Runtime.Load
statDir(id) == IF id \in dirs THEN "nil" ELSE "ENOENT"

\* Container.load: the record is read back from the snapshot and the config file.
loadRecord(id) ==
    IF SnapshotFile \in files[id] /\ ConfigFile \in files[id] THEN "nil" ELSE "err"

\* LoadResult as it would be if every failure of Load gave the sentinel.
LoadResultAlwaysSentinel(id) ==
    IF statDir(id) = "ENOENT" \/ loadRecord(id) # "nil" THEN ErrNotExist ELSE "nil"

\* Runtime.Load: the error it returns, "nil" with a container
LoadResult(id) ==
    IF statDir(id) = "ENOENT" THEN ErrNotExist
    ELSE IF loadRecord(id) # "nil" THEN "ErrLoad"
    ELSE "nil"

\* The steps of Runtime.Load
LoadTrace(id) ==
    <<<<"stat", statDir(id)>>>>
        \o (IF statDir(id) = "nil" THEN <<<<"load", loadRecord(id)>>>> ELSE <<>>)

\* Container.ContainerState: recomputed from the process state on every call.
ContainerState(id) == status[id]

Load(id) ==
    /\ last' = Op("Load", id, IF LoadResult(id) = "nil" THEN "ok" ELSE LoadResult(id),
                  "-", FALSE, "-", "-", "-")
    /\ trace' = LoadTrace(id)
    /\ logs' = {}
    /\ UNCHANGED <<dirs, files, hooks, status, mon, cg, creates>>

----
\* The container configurations that callers pass to Create: a valid one, and
\* the valid one with a single field changed.
GoodCfg ==
    [idlen |-> 1, root |-> "ok", process |-> "ok", cwd |-> "/", mntns |-> "private",
     pidns |-> "private", hooks |-> FALSE]

Cfgs ==
    {GoodCfg,
     [GoodCfg EXCEPT !.idlen = 0],
     [GoodCfg EXCEPT !.root = "nil"],
     [GoodCfg EXCEPT !.root = "empty"],
     [GoodCfg EXCEPT !.process = "nil"],
     [GoodCfg EXCEPT !.process = "noargs"],
     [GoodCfg EXCEPT !.cwd = ""],
     [GoodCfg EXCEPT !.mntns = "shared"],
     [GoodCfg EXCEPT !.mntns = "err"],
     [GoodCfg EXCEPT !.pidns = "shared"],
     [GoodCfg EXCEPT !.pidns = "err"],
     [GoodCfg EXCEPT !.hooks = TRUE]}

\* isNamespaceSharedWithRuntime(getNamespace(spec, t)): "yes", "no" or "err"
isNamespaceSharedWithRuntime(ns) ==
    IF ns = "shared" THEN "yes" ELSE IF ns = "err" THEN "err" ELSE "no"

\* checkSpec without the test of the mount namespace.
checkSpecNoMountCheck(spec) ==
    IF spec.root = "nil" THEN "spec.Root is nil"
    ELSE IF spec.root = "empty" THEN "empty spec.Root.Path"
    ELSE IF spec.process = "nil" THEN "spec.Process is nil"
    ELSE IF spec.process = "noargs" THEN "specs.Process.Args is empty"
    ELSE IF isNamespaceSharedWithRuntime(spec.pidns) = "err" THEN "failed to check PID namespace"
    ELSE "nil"

\* Runtime.checkSpec: the first violation, or "nil"
checkSpec(spec) ==
    IF spec.root = "nil" THEN "spec.Root is nil"
    ELSE IF spec.root = "empty" THEN "empty spec.Root.Path"
    ELSE IF spec.process = "nil" THEN "spec.Process is nil"
    ELSE IF spec.process = "noargs" THEN "specs.Process.Args is empty"
    ELSE IF isNamespaceSharedWithRuntime(spec.mntns) = "err" THEN "failed to mount namespace"
    ELSE IF isNamespaceSharedWithRuntime(spec.mntns) = "yes"
         THEN "container wants to share the runtimes mount namespace"
    ELSE IF isNamespaceSharedWithRuntime(spec.pidns) = "err" THEN "failed to check PID namespace"
    ELSE "nil"

\* What Runtime.checkSpec logs on the way.
checkSpecLogs(spec) ==
    IF spec.root # "ok" \/ spec.process # "ok" THEN {}
    ELSE (IF spec.cwd = "" THEN {"info: specs.Process.Cwd is unset defaulting to '/'"} ELSE {})
         \cup (IF checkSpec(spec) = "nil" /\ isNamespaceSharedWithRuntime(spec.pidns) = "yes"
               THEN {"warn: container shares the PID namespace with the runtime"} ELSE {})

\* Runtime.checkConfig
checkConfig(cfg) ==
    IF cfg.idlen = 0 THEN "missing container ID" ELSE checkSpec(cfg)

\* Container.create: the runtime directory is made by exclusive creation.
createDir(id, f) ==
    IF id \in dirs THEN "exists" ELSE Fault("create", f)

\* createFailed as it would be if Create dropped the error of Container.create.
createFailedNever(err) == FALSE

\* Runtime.Create, `if err := c.create(); err != nil`
createFailed(err) == err # "nil"

\* specki.EncodeJSONFile(p, c, os.O_EXCL|os.O_CREATE, 0440)
writeSnapshot(fl, f) ==
    IF SnapshotFile \in fl THEN "exists" ELSE Fault("writeSnapshot", f)

\* Container.waitCreated: "nil", "timeout" (the deadline of Create is reached
\* before the monitor raises the created signal) or "exited" (the monitor exits)
waitCreated(f) ==
    IF "timeout" \in f THEN "timeout" ELSE IF "exited" \in f THEN "exited" ELSE "nil"

CreateFaults ==
    {"create", "configure", "saveConfig", "startMonitor", "writeSnapshot", "timeout", "exited"}

Out(res, tr, lg, d, fl, st, m, c) ==
    [res |-> res, trace |-> tr, logs |-> lg, dir |-> d, files |-> fl,
     status |-> st, mon |-> m, cg |-> c]

\* runStartCmd as it would be if the expiry of the deadline killed the monitor
\* that the call had started.
runStartCmdKillsOnExpiry(id, f, tr, lg, fl) ==
    LET tr1 == tr \o <<<<"saveConfig", Fault("saveConfig", f)>>>>
        tr2 == tr1 \o <<<<"startMonitor", Fault("startMonitor", f)>>>>
        fl2 == fl \cup {ConfigFile}
        tr3 == tr2 \o <<<<"writeSnapshot", writeSnapshot(fl2, f)>>>>
        fl3 == fl2 \cup {SnapshotFile}
        tr4 == tr3 \o <<<<"waitCreated", waitCreated(f)>>>>
    IN  IF Fault("saveConfig", f) # "nil"
        THEN Out("ErrSave", tr1, lg, TRUE, fl, status[id], mon[id], cg[id])
        ELSE IF Fault("startMonitor", f) # "nil"
        THEN Out("ErrStart", tr2, lg, TRUE, fl2, status[id], mon[id], cg[id])
        ELSE IF writeSnapshot(fl2, f) # "nil"
        THEN Out("ErrSnapshot", tr3, lg, TRUE, fl2, StateCreating, "alive", "populated")
        ELSE IF waitCreated(f) # "nil"
        THEN Out("ErrWait", tr4 \o <<<<"kill", "nil">>>>, lg, TRUE, fl3,
                 StateStopped, "exited", "empty")
        ELSE Out("ok", tr4, lg, TRUE, fl3, StateCreated, "alive", "populated")

\* Runtime.runStartCmd, entered with the runtime directory holding fl.
runStartCmd(id, f, tr, lg, fl) ==
    LET tr1 == tr \o <<<<"saveConfig", Fault("saveConfig", f)>>>>
        tr2 == tr1 \o <<<<"startMonitor", Fault("startMonitor", f)>>>>
        fl2 == fl \cup {ConfigFile}
        tr3 == tr2 \o <<<<"writeSnapshot", writeSnapshot(fl2, f)>>>>
        fl3 == fl2 \cup {SnapshotFile}
        tr4 == tr3 \o <<<<"waitCreated", waitCreated(f)>>>>
    IN  IF Fault("saveConfig", f) # "nil"
        THEN Out("ErrSave", tr1, lg, TRUE, fl, status[id], mon[id], cg[id])
        ELSE IF Fault("startMonitor", f) # "nil"
        THEN Out("ErrStart", tr2, lg, TRUE, fl2, status[id], mon[id], cg[id])
        ELSE IF writeSnapshot(fl2, f) # "nil"
        THEN Out("ErrSnapshot", tr3, lg, TRUE, fl2, StateCreating, "alive", "populated")
        ELSE IF waitCreated(f) = "timeout"
        THEN Out("ErrWait", tr4, lg, TRUE, fl3, StateCreating, "alive", "populated")
        ELSE IF waitCreated(f) = "exited"
        THEN Out("ErrWait", tr4, lg, TRUE, fl3, StateStopped, "exited", "empty")
        ELSE Out("ok", tr4, lg, TRUE, fl3, StateCreated, "alive", "populated")

\* Runtime.Create after the runtime directory was made: configureContainer,
\* Runtime.runStartCmd and the deferred after-create hook.
configureAndRun(id, f, tr, lg, fl) ==
    LET tr1 == tr \o <<<<"configure", Fault("configure", f)>>>>
        r == runStartCmd(id, f, tr1, lg, fl \cup {DevicesFile})
    IN  IF Fault("configure", f) # "nil"
        THEN Out("ErrConfigure", tr1, lg, TRUE, fl \cup {DevicesFile},
                 status[id], mon[id], cg[id])
        ELSE IF r.res = "ok" THEN [r EXCEPT !.trace = @ \o <<<<"deferAfterCreate", "nil">>>>]
        ELSE r

\* Runtime.Create
CreateRun(id, cfg, f) ==
    LET lg == checkSpecLogs(cfg)
        keep(res, tr) ==
            Out(res, tr, lg, id \in dirs, files[id], status[id], mon[id], cg[id])
        tr1 == <<<<"checkConfig", checkConfig(cfg)>>>>
        tr2 == tr1 \o <<<<"create", createDir(id, f)>>>>
    IN  IF checkConfig(cfg) # "nil" THEN keep("ErrValidate", tr1)
        ELSE IF createFailed(createDir(id, f))
        THEN keep(IF createDir(id, f) = "exists" THEN "ErrExist" ELSE "ErrCreate", tr2)
        ELSE configureAndRun(id, f, tr2, lg, IF id \in dirs THEN files[id] ELSE {})

Create(id, cfg, f) ==
    LET r == CreateRun(id, cfg, f)
    IN  /\ dirs' = IF r.dir THEN dirs \cup {id} ELSE dirs
        /\ files' = [files EXCEPT ![id] = r.files]
        /\ hooks' = [hooks EXCEPT ![id] = IF r.res \in {"ok", "ErrWait"} THEN cfg.hooks ELSE @]
        /\ status' = [status EXCEPT ![id] = r.status]
        /\ mon' = [mon EXCEPT ![id] = r.mon]
        /\ cg' = [cg EXCEPT ![id] = r.cg]
        /\ creates' = [creates EXCEPT ![id] = IF r.res = "ok" THEN @ + 1 ELSE @]
        /\ last' = Op("Create", id, r.res, "-", FALSE, "-", "-", cfg)
        /\ trace' = r.trace
        /\ logs' = r.logs

----
\* startRefused as it would be if Start turned away stopped containers only.
startRefusedOnlyStopped(state) == state = StateStopped

\* startRefused as it would be if Start did not look at the state.
startRefusedNever(state) == FALSE

\* Runtime.Start, `state.SpecState.Status != specs.StateCreated`
startRefused(state) == state # StateCreated

StartFaults == {"state", "start", "hookState"}

\* Runtime.Start on a loaded container
StartRun(id, f) ==
    LET keep(res, tr) == Out(res, tr, {}, TRUE, files[id], status[id], mon[id], cg[id])
        tr1 == <<<<"state", Fault("state", f)>>>>
        tr2 == tr1 \o <<<<"start", Fault("start", f)>>>>
        tr3 == tr2 \o <<<<"hookState", Fault("hookState", f)>>>>
    IN  IF Fault("state", f) # "nil" THEN keep("ErrState", tr1)
        ELSE IF startRefused(ContainerState(id)) THEN keep("ErrInvalidState", tr1)
        ELSE IF Fault("start", f) # "nil" THEN keep("ErrStart", tr2)
        ELSE IF ~hooks[id]
        THEN Out("ok", tr2, {}, TRUE, files[id], StateRunning, mon[id], cg[id])
        ELSE IF Fault("hookState", f) # "nil"
        THEN Out("ErrState", tr3, {}, TRUE, files[id], StateRunning, mon[id], cg[id])
        ELSE Out("ok", tr3 \o <<<<"poststart", "nil">>>>, {}, TRUE, files[id],
                 StateRunning, mon[id], cg[id])

Start(id, f) ==
    /\ LoadResult(id) = "nil"
    /\ LET r == StartRun(id, f)
       IN  /\ status' = [status EXCEPT ![id] = r.status]
           /\ last' = Op("Start", id, r.res,
                         IF Fault("state", f) = "nil" THEN ContainerState(id) ELSE "-",
                         FALSE, "-", "-", "-")
           /\ trace' = r.trace
           /\ logs' = r.logs
    /\ UNCHANGED <<dirs, files, hooks, mon, cg, creates>>

\* killRefused as it would be if Kill signalled running containers only.
killRefusedUnlessRunning(state) == state # StateRunning

\* Runtime.Kill, `state == specs.StateStopped`
killRefused(state) == state = StateStopped

\* Container.kill: the state of the init process after the signal was delivered.
afterSignal(state, sig) == IF sig = SIGKILL THEN StateStopped ELSE state

KillFaults == {"state", "kill"}

\* Runtime.Kill on a loaded container: result, steps, signal passed on, state after.
KillRun(id, sig, f) ==
    LET tr1 == <<<<"state", Fault("state", f)>>>>
        tr2 == tr1 \o <<<<"kill", Fault("kill", f)>>>>
    IN  IF Fault("state", f) # "nil"
        THEN [res |-> "ErrState", trace |-> tr1, sent |-> "-", status |-> status[id]]
        ELSE IF killRefused(ContainerState(id))
        THEN [res |-> "ErrStopped", trace |-> tr1, sent |-> "-", status |-> status[id]]
        ELSE IF Fault("kill", f) # "nil"
        THEN [res |-> "ErrKill", trace |-> tr2, sent |-> sig, status |-> status[id]]
        ELSE [res |-> "ok", trace |-> tr2, sent |-> sig,
              status |-> afterSignal(status[id], sig)]

Kill(id, sig, f) ==
    /\ LoadResult(id) = "nil"
    /\ LET r == KillRun(id, sig, f)
       IN  /\ status' = [status EXCEPT ![id] = r.status]
           /\ last' = Op("Kill", id, r.res,
                         IF Fault("state", f) = "nil" THEN ContainerState(id) ELSE "-",
                         FALSE, sig, r.sent, "-")
           /\ trace' = r.trace
    /\ logs' = {}
    /\ UNCHANGED <<dirs, files, hooks, mon, cg, creates>>

----
\* Runtime.Delete, `if err == ErrNotExist { return err }`
isNotExist(err) == err = ErrNotExist

\* loadFailed as it would be if Delete had no fallback for an unloadable record.
loadFailedNever(err) == FALSE

\* Runtime.Delete, `if err != nil` after Load: the container is unloadable
loadFailed(err) == err # "nil"

\* deleteNeedsKill with the comparison inverted.
deleteNeedsKillInverted(state) == state = StateStopped

\* Runtime.Delete, `state != specs.StateStopped`
deleteNeedsKill(state) == state # StateStopped

\* Container.waitMonitorStopped: fails when the monitor outlives the deadline.
waitMonitorStopped(m, f) == IF m = "alive" THEN Fault("waitMonitorStopped", f) ELSE "nil"

\* pollCgroupEvents(ctx, eventsFile, populated=0): "nil", "ENOENT" (no events
\* file) or "err" (deadline reached while populated, or the file is unreadable)
pollCgroupEvents(c, f) ==
    IF c = "absent" THEN "ENOENT"
    ELSE IF c = "populated" THEN "err"
    ELSE Fault("pollCgroupEvents", f)

\* pollWarned without the os.IsNotExist test.
pollWarnedAny(err) == err # "nil"

\* Runtime.Delete, `err != nil && !os.IsNotExist(err)` after pollCgroupEvents
pollWarned(err) == err # "nil" /\ err # "ENOENT"

\* deleteCgroup(c.CgroupDir): "nil", "ENOENT" (already removed) or "err" (the
\* kernel refuses to remove a populated cgroup, or the removal fails)
deleteCgroup(c, f) ==
    IF c = "absent" THEN "ENOENT"
    ELSE IF c = "populated" THEN "err"
    ELSE Fault("deleteCgroup", f)

\* Runtime.Delete, `err != nil && !os.IsNotExist(err)` after deleteCgroup
cgroupDeleteFatal(err) == err # "nil" /\ err # "ENOENT"

\* destroyFatal as it would be if a failed Destroy were logged and skipped over.
destroyIgnored(err) == FALSE

\* Runtime.Delete, `if err := c.LinuxContainer.Destroy(); err != nil { return ... }`
destroyFatal(err) == err # "nil"

\* Runtime.Delete, `state, err := c.State(); if err != nil { return ... }`
hookStateFatal(err) == err # "nil"

DeleteFaults ==
    {"state", "kill", "waitMonitorStopped", "destroy", "pollCgroupEvents", "deleteCgroup",
     "hookState", "poststop", "removeAll"}

DOut(res, tr, lg, sent, removed, st, m, c) ==
    [res |-> res, trace |-> tr, logs |-> lg, sent |-> sent, removed |-> removed,
     status |-> st, mon |-> m, cg |-> c]

\* Runtime.Delete from waitMonitorStopped on: the container is stopped or was killed.
Teardown(id, f, tr0, sent) ==
    LET waitErr == waitMonitorStopped(mon[id], f)
        m1 == IF mon[id] = "alive" /\ waitErr = "nil" THEN "exited" ELSE mon[id]
        c1 == IF m1 = "exited" /\ cg[id] = "populated" THEN "empty" ELSE cg[id]
        lg1 == IF waitErr # "nil" THEN {"error: failed to stop monitor process"} ELSE {}
        tr1 == tr0 \o <<<<"waitMonitorStopped", waitErr>>, <<"destroy", Fault("destroy", f)>>>>
        pollErr == pollCgroupEvents(c1, f)
        lg2 == lg1 \cup (IF pollWarned(pollErr)
                         THEN {"warn: failed to wait until cgroup.events populated=0"}
                         ELSE {})
        delErr == deleteCgroup(c1, f)
        tr2 == tr1 \o <<<<"pollCgroupEvents", pollErr>>, <<"deleteCgroup", delErr>>>>
        c2 == IF delErr = "nil" THEN "absent" ELSE c1
        tr3 == tr2 \o <<<<"hookState", Fault("hookState", f)>>>>
        tr4 == IF hooks[id] THEN tr3 \o <<<<"poststop", Fault("poststop", f)>>>> ELSE tr2
        tr5 == tr4 \o <<<<"removeAll", Fault("removeAll", f)>>>>
    IN  IF destroyFatal(Fault("destroy", f))
        THEN DOut("ErrDestroy", tr1, lg1, sent, FALSE, StateStopped, m1, c1)
        ELSE IF cgroupDeleteFatal(delErr)
        THEN DOut("ErrCgroup", tr2, lg2, sent, FALSE, StateStopped, m1, c1)
        ELSE IF hooks[id] /\ hookStateFatal(Fault("hookState", f))
        THEN DOut("ErrState", tr3, lg2, sent, FALSE, StateStopped, m1, c2)
        ELSE IF Fault("removeAll", f) # "nil"
        THEN DOut("ErrRemove", tr5, lg2, sent, FALSE, StateStopped, m1, c2)
        ELSE DOut("ok", tr5, lg2, sent, TRUE, StateStopped, m1, c2)

\* Runtime.Delete
DeleteRun(id, force, f) ==
    LET keep(res, tr, lg, sent) ==
            DOut(res, tr, lg, sent, FALSE, status[id], mon[id], cg[id])
        unloadable == {"warn: deleting runtime dir for unloadable container"}
        trRm == LoadTrace(id) \o <<<<"removeAll", Fault("removeAll", f)>>>>
        trSt == LoadTrace(id) \o <<<<"state", Fault("state", f)>>>>
        trKill == trSt \o <<<<"kill", Fault("kill", f)>>>>
    IN  IF isNotExist(LoadResult(id)) THEN keep(ErrNotExist, LoadTrace(id), {}, "-")
        ELSE IF loadFailed(LoadResult(id))
        THEN IF Fault("removeAll", f) # "nil"
             THEN keep("ErrRemove", trRm, unloadable, "-")
             ELSE DOut("ok", trRm, unloadable, "-", TRUE, status[id], mon[id], cg[id])
        ELSE IF Fault("state", f) # "nil" THEN keep("ErrState", trSt, {}, "-")
        ELSE IF deleteNeedsKill(ContainerState(id))
        THEN IF ~force THEN keep("ErrInvalidState", trSt, {}, "-")
             ELSE IF Fault("kill", f) # "nil" THEN keep("ErrKill", trKill, {}, SIGKILL)
             ELSE Teardown(id, f, trKill, SIGKILL)
        ELSE Teardown(id, f, trSt, "-")

\* Delete as it would be if the runtime directory were removed as soon as the
\* backend container is destroyed.
DeleteRemovesEarly(id, force, f) ==
    LET r == DeleteRun(id, force, f)
        removed == r.removed \/ \E i \in DOMAIN r.trace : r.trace[i] = <<"destroy", "nil">>
        gone == removed /\ r.mon # "alive"
    IN  /\ dirs' = IF removed THEN dirs \ {id} ELSE dirs
        /\ files' = [files EXCEPT ![id] = IF removed THEN {} ELSE @]
        /\ hooks' = [hooks EXCEPT ![id] = IF removed THEN FALSE ELSE @]
        /\ creates' = [creates EXCEPT ![id] = IF removed THEN 0 ELSE @]
        /\ status' = [status EXCEPT ![id] = IF gone THEN "none" ELSE r.status]
        /\ mon' = [mon EXCEPT ![id] = IF gone THEN "none" ELSE r.mon]
        /\ cg' = [cg EXCEPT ![id] = r.cg]
        /\ last' = Op("Delete", id, r.res,
                      IF LoadResult(id) = "nil" /\ Fault("state", f) = "nil"
                      THEN ContainerState(id) ELSE "-",
                      force, "-", r.sent, "-")
        /\ trace' = r.trace
        /\ logs' = r.logs

Delete(id, force, f) ==
    LET r == DeleteRun(id, force, f)
        gone == r.removed /\ r.mon # "alive"
    IN  /\ dirs' = IF r.removed THEN dirs \ {id} ELSE dirs
        /\ files' = [files EXCEPT ![id] = IF r.removed THEN {} ELSE @]
        /\ hooks' = [hooks EXCEPT ![id] = IF r.removed THEN FALSE ELSE @]
        /\ creates' = [creates EXCEPT ![id] = IF r.removed THEN 0 ELSE @]
        /\ status' = [status EXCEPT ![id] = IF gone THEN "none" ELSE r.status]
        /\ mon' = [mon EXCEPT ![id] = IF gone THEN "none" ELSE r.mon]
        /\ cg' = [cg EXCEPT ![id] = r.cg]
        /\ last' = Op("Delete", id, r.res,
                      IF LoadResult(id) = "nil" /\ Fault("state", f) = "nil"
                      THEN ContainerState(id) ELSE "-",
                      force, "-", r.sent, "-")
        /\ trace' = r.trace
        /\ logs' = r.logs

----
\* What happens outside the runtime's calls.
Env(id) == Op("env", id, "ok", "-", FALSE, "-", "-", "-")

\* The monitor raises the created signal after the Create that started it gave up.
MonitorReady(id) ==
    /\ status[id] = StateCreating /\ mon[id] = "alive"
    /\ status' = [status EXCEPT ![id] = StateCreated]
    /\ last' = Env(id) /\ trace' = <<>> /\ logs' = {}
    /\ UNCHANGED <<dirs, files, hooks, mon, cg, creates>>

\* The container init process exits.
InitExits(id) ==
    /\ status[id] \in {StateCreating, StateCreated, StateRunning}
    /\ status' = [status EXCEPT ![id] = StateStopped]
    /\ last' = Env(id) /\ trace' = <<>> /\ logs' = {}
    /\ UNCHANGED <<dirs, files, hooks, mon, cg, creates>>

\* The monitor process exits after its container stopped; its cgroup drains.
MonitorExits(id) ==
    /\ status[id] = StateStopped /\ mon[id] = "alive"
    /\ mon' = [mon EXCEPT ![id] = "exited"]
    /\ cg' = [cg EXCEPT ![id] = IF @ = "populated" THEN "empty" ELSE @]
    /\ last' = Env(id) /\ trace' = <<>> /\ logs' = {}
    /\ UNCHANGED <<dirs, files, hooks, status, creates>>

\* A concurrent teardown removes the drained cgroup.
CgroupRemoved(id) ==
    /\ cg[id] = "empty"
    /\ cg' = [cg EXCEPT ![id] = "absent"]
    /\ last' = Env(id) /\ trace' = <<>> /\ logs' = {}
    /\ UNCHANGED <<dirs, files, hooks, status, mon, creates>>

----
Init ==
    /\ dirs = {}
    /\ files = [i \in IDs |-> {}]
    /\ hooks = [i \in IDs |-> FALSE]
    /\ status = [i \in IDs |-> "none"]
    /\ mon = [i \in IDs |-> "none"]
    /\ cg = [i \in IDs |-> "absent"]
    /\ creates = [i \in IDs |-> 0]
    /\ last = Op("Init", "-", "ok", "-", FALSE, "-", "-", "-")
    /\ trace = <<>>
    /\ logs = {}
    /\ TimedIdle
    /\ PureIdle

Next ==
    \/ \E id \in IDs : Load(id) /\ UNCHANGED <<timedVars, pureVars>>
    \/ \E id \in IDs, cfg \in Cfgs :
           \E f \in (IF checkConfig(cfg) = "nil" THEN FaultSets(CreateFaults) ELSE {{}}) :
              Create(id, cfg, f) /\ UNCHANGED <<timedVars, pureVars>>
    \/ \E id \in IDs, f \in FaultSets(StartFaults) :
           Start(id, f) /\ UNCHANGED <<timedVars, pureVars>>
    \/ \E id \in IDs, sig \in Signals, f \in FaultSets(KillFaults) :
           Kill(id, sig, f) /\ UNCHANGED <<timedVars, pureVars>>
    \/ \E id \in IDs, force \in BOOLEAN, f \in FaultSets(DeleteFaults) :
           Delete(id, force, f) /\ UNCHANGED <<timedVars, pureVars>>
    \/ \E id \in IDs : MonitorReady(id) /\ UNCHANGED <<timedVars, pureVars>>
    \/ \E id \in IDs : InitExits(id) /\ UNCHANGED <<timedVars, pureVars>>
    \/ \E id \in IDs : MonitorExits(id) /\ UNCHANGED <<timedVars, pureVars>>
    \/ \E id \in IDs : CgroupRemoved(id) /\ UNCHANGED <<timedVars, pureVars>>

Spec == Init /\ [][Next]_vars

----
\* Runtime.Create followed step by step: the steps before the monitor is
\* waited for, the wait for the "container created" signal under the deadline
\* of the call, and the deferred after-create hook.

\* rt.Timeouts.Create, in ticks of the clock
CreateTimeout == 3

\* The console modes of a call: c.ConsoleSocket and c.Spec.Process.Terminal.
ConsoleModes == [ConsoleSocket : {"", "sock"}, Terminal : BOOLEAN]

\* cmd.Process.Pid of a started monitor
MonitorPid == 1

\* The steps of Create and runStartCmd before the wait, in order.
CreateSteps ==
    <<"checkConfig", "create", "configure", "consolePath", "saveConfig",
      "startMonitor", "writeSnapshot">>

\* consolePathNeeded as it would be if Create never set the directive.
consolePathNever(mode) == FALSE

\* runStartCmd, `if c.ConsoleSocket == "" && !c.Spec.Process.Terminal`: the
\* console is disabled when the container has neither a socket nor a terminal.
consolePathNeeded(mode) == mode.ConsoleSocket = "" /\ ~mode.Terminal

StepAfter(step) ==
    IF step = "writeSnapshot" THEN "waitCreated"
    ELSE IF step = "configure" /\ ~consolePathNeeded(console) THEN "saveConfig"
    ELSE CreateSteps[1 + CHOOSE i \in DOMAIN CreateSteps : CreateSteps[i] = step]

\* openExclusive as it would be if the snapshot were opened with O_TRUNC.
openTruncating(existing) == TRUE

\* specki.EncodeJSONFile(p, c, os.O_EXCL|os.O_CREATE, 0440): the file is
\* created only where no file exists.
openExclusive(existing) == existing = <<>>

\* The snapshot of the container record as Create encodes it.
Snapshot(r) == [writer |-> "Create", Pid |-> r.Pid, CreatedAt |-> r.CreatedAt]

\* A file at the path of the snapshot that this call did not write.
ForeignSnapshot == [writer |-> "other", Pid |-> 0, CreatedAt |-> <<>>]

\* deadlineExpired as it would be if Create bound no deadline to its context.
deadlineNever(t) == FALSE

\* ctx.Done() of context.WithTimeout(ctx, rt.Timeouts.Create)
deadlineExpired(t) == t >= CreateTimeout

\* The caller enters Create; h: rt.Hooks.AfterCreate != nil, mode: the console
\* mode of the container.
CallCreate(h, mode) ==
    /\ pc = "idle"
    /\ pc' = "checkConfig" /\ clock' = 0 /\ afterCreate' = h /\ console' = mode
    /\ UNCHANGED <<child, created, hook, result, directives, rec, rtdir, writes>>

\* What a step that returned err has done to the monitor: cmd.Start() leaves it
\* running; runStartCmdConsole, which fails before or after pty.Start, leaves
\* it running or not started.
childAfter(step, err) ==
    IF step # "startMonitor" THEN {child}
    ELSE IF ~err THEN {"alive"}
    ELSE IF console.ConsoleSocket # "" THEN {child, "alive"}
    ELSE {child}

\* One step before the wait returns err. The directives are set in memory,
\* SaveConfigFile writes them, the started monitor is recorded, and the
\* snapshot is created exclusively.
CreateStep(err) ==
    /\ pc \in {CreateSteps[i] : i \in DOMAIN CreateSteps}
    /\ LET failed == err \/ (pc = "writeSnapshot" /\ ~openExclusive(rtdir[SnapshotFile]))
           file == IF pc = "saveConfig" THEN ConfigFile ELSE SnapshotFile
           written == ~failed /\ pc \in {"saveConfig", "writeSnapshot"}
       IN  /\ pc' = IF failed THEN "returned" ELSE StepAfter(pc)
           /\ result' = IF failed THEN "failed: " \o pc ELSE result
           /\ child' \in childAfter(pc, err)
           /\ directives' =
                  IF failed THEN directives
                  ELSE IF pc = "configure" THEN directives \cup {"spec"}
                  ELSE IF pc = "consolePath" THEN directives \cup {"lxc.console.path"}
                  ELSE directives
           /\ rec' = IF pc = "startMonitor" /\ ~err
                     THEN [Pid |-> MonitorPid, CreatedAt |-> <<clock>>] ELSE rec
           /\ rtdir' = IF ~written THEN rtdir
                       ELSE IF pc = "saveConfig" THEN [rtdir EXCEPT ![file] = <<directives>>]
                       ELSE [rtdir EXCEPT ![file] = <<Snapshot(rec)>>]
           /\ writes' = IF written THEN [writes EXCEPT ![file] = @ + 1] ELSE writes
    /\ UNCHANGED <<clock, created, afterCreate, hook, console>>

\* Another process creates a file at the path of the snapshot while the
\* runtime directory exists and the call has not written its own.
SnapshotAppears ==
    /\ pc \in {"configure", "consolePath", "saveConfig", "startMonitor", "writeSnapshot"}
    /\ rtdir[SnapshotFile] = <<>>
    /\ rtdir' = [rtdir EXCEPT ![SnapshotFile] = <<ForeignSnapshot>>]
    /\ UNCHANGED <<pc, clock, child, created, afterCreate, hook, result,
                   console, directives, rec, writes>>

\* Time passes while the call is in progress.
Tick ==
    /\ pc \notin {"idle", "returned"}
    /\ clock < CreateTimeout
    /\ clock' = clock + 1
    /\ UNCHANGED <<pc, child, created, afterCreate, hook, result>>
    /\ UNCHANGED <<console, directives, rec, rtdir, writes>>

\* The monitor raises the "container created" signal.
RaiseCreated ==
    /\ child = "alive" /\ ~created
    /\ created' = TRUE
    /\ UNCHANGED <<pc, clock, child, afterCreate, hook, result>>
    /\ UNCHANGED <<console, directives, rec, rtdir, writes>>

\* The monitor subprocess exits.
ChildExits ==
    /\ child = "alive"
    /\ child' = "exited"
    /\ UNCHANGED <<pc, clock, created, afterCreate, hook, result>>
    /\ UNCHANGED <<console, directives, rec, rtdir, writes>>

\* What Container.waitCreated returns once it returns: the context error, the
\* exit of the monitor, or nil when the signal was raised.
waitCreatedResult ==
    IF deadlineExpired(clock) THEN "failed: deadline exceeded"
    ELSE IF child = "exited" THEN "failed: monitor exited"
    ELSE "nil"

\* returnCreated as it would be if the hook were started with `go`.
returnCreatedHookAsync ==
    /\ pc' = "returned" /\ result' = "ok"
    /\ hook' = IF afterCreate THEN "running" ELSE hook

\* Runtime.Create, `if rt.Hooks.AfterCreate != nil { defer rt.Hooks.AfterCreate(ctx, c) }`
\* and `return c, nil`: the deferred call runs the hook before Create returns.
returnCreated ==
    IF afterCreate
    THEN pc' = "afterCreate" /\ result' = result /\ hook' = "running"
    ELSE pc' = "returned" /\ result' = "ok" /\ hook' = hook

\* Container.waitCreated returns, and Create with it: at once on an error.
WaitCreated ==
    /\ pc = "waitCreated"
    /\ deadlineExpired(clock) \/ child = "exited" \/ created
    /\ IF waitCreatedResult # "nil"
       THEN pc' = "returned" /\ result' = waitCreatedResult /\ hook' = hook
       ELSE returnCreated
    /\ UNCHANGED <<clock, child, created, afterCreate>>
    /\ UNCHANGED <<console, directives, rec, rtdir, writes>>

\* The after-create hook returns, and Create returns to its caller.
HookReturns ==
    /\ pc = "afterCreate" /\ hook = "running"
    /\ pc' = "returned" /\ hook' = "done" /\ result' = "ok"
    /\ UNCHANGED <<clock, child, created, afterCreate>>
    /\ UNCHANGED <<console, directives, rec, rtdir, writes>>

TimedNext ==
    \/ \E h \in BOOLEAN, mode \in ConsoleModes :
           CallCreate(h, mode) /\ UNCHANGED <<vars, pureVars>>
    \/ \E err \in BOOLEAN : CreateStep(err) /\ UNCHANGED <<vars, pureVars>>
    \/ Tick /\ UNCHANGED <<vars, pureVars>>
    \/ RaiseCreated /\ UNCHANGED <<vars, pureVars>>
    \/ ChildExits /\ UNCHANGED <<vars, pureVars>>
    \/ SnapshotAppears /\ UNCHANGED <<vars, pureVars>>
    \/ WaitCreated /\ UNCHANGED <<vars, pureVars>>
    \/ HookReturns /\ UNCHANGED <<vars, pureVars>>

\* Time passes and the goroutine in Container.waitCreated is scheduled; the
\* monitor and the hook are under no obligation.
TimedCreate ==
    Init /\ [][TimedNext]_timedVars /\ WF_timedVars(Tick) /\ WF_timedVars(WaitCreated)

----
\* Text, as the sequence of its characters.
ToLowerChar(c) ==
    CASE c = "A" -> "a" [] c = "B" -> "b" [] c = "C" -> "c" [] c = "D" -> "d"
      [] c = "E" -> "e" [] c = "F" -> "f" [] c = "G" -> "g" [] c = "H" -> "h"
      [] c = "I" -> "i" [] c = "J" -> "j" [] c = "K" -> "k" [] c = "L" -> "l"
      [] c = "M" -> "m" [] c = "N" -> "n" [] c = "O" -> "o" [] c = "P" -> "p"
      [] c = "Q" -> "q" [] c = "R" -> "r" [] c = "S" -> "s" [] c = "T" -> "t"
      [] c = "U" -> "u" [] c = "V" -> "v" [] c = "W" -> "w" [] c = "X" -> "x"
      [] c = "Y" -> "y" [] c = "Z" -> "z" [] OTHER -> c

\* strings.ToLower
ToLower(s) == [i \in DOMAIN s |-> ToLowerChar(s[i])]

\* strings.HasPrefix
HasPrefix(s, p) == Len(s) >= Len(p) /\ SubSeq(s, 1, Len(p)) = p

\* strings.TrimPrefix
TrimPrefix(s, p) == IF HasPrefix(s, p) THEN SubSeq(s, Len(p) + 1, Len(s)) ELSE s

\* A directive handed to SetConfigItem: the key is a fixed stem with, for some
\* directives, a name appended.
Directive(stem, name, val) == [stem |-> stem, name |-> name, val |-> val]

----
\* configureContainer, the resource limits (Process.Rlimits).

\* The longest list of resource limits of a spec.
MaxLimits == 3

RlimitTypes ==
    {<<"R", "L", "I", "M", "I", "T", "_", "C", "P", "U">>,
     <<"c", "p", "u">>,
     <<"r", "l", "i", "m", "i", "t", "_", "A", "S">>,
     <<"A", "S">>}

\* specs.POSIXRlimit
Rlimit(type) == [type |-> type, soft |-> 1024, hard |-> 4096]

RlimitLists ==
    UNION {[1..n -> {Rlimit(t) : t \in RlimitTypes}] : n \in 0..MaxLimits}

\* limitName as it would be if the type were compared as it is written.
limitNameCaseKept(type) == TrimPrefix(type, <<"r", "l", "i", "m", "i", "t", "_">>)

\* `name := strings.TrimPrefix(strings.ToLower(limit.Type), "rlimit_")`
limitName(type) == TrimPrefix(ToLower(type), <<"r", "l", "i", "m", "i", "t", "_">>)

\* The loop over c.Process.Rlimits from its entry i on, with the names seen and
\* the directives set so far: the error returned and the directives set.
RECURSIVE rlimitLoop(_, _, _, _)
rlimitLoop(limits, i, seenLimits, conf) ==
    IF i > Len(limits) THEN [err |-> "nil", conf |-> conf]
    ELSE IF \E j \in DOMAIN seenLimits : seenLimits[j] = limitName(limits[i].type)
    THEN [err |-> "duplicate resource limit", conf |-> conf]
    ELSE rlimitLoop(limits, i + 1, Append(seenLimits, limitName(limits[i].type)),
                    Append(conf, Directive("lxc.prlimit.", limitName(limits[i].type),
                                           <<limits[i].soft, ":", limits[i].hard>>)))

configureRlimits(limits) == rlimitLoop(limits, 1, <<>>, <<>>)

ConfigureRlimits(limits) ==
    /\ call' = Applied("configureRlimits", limits, configureRlimits(limits))
    /\ UNCHANGED root

----
\* configureContainer, the kernel parameters (Linux.Sysctl, a Go map).
SysctlKeys == {"kernel.msgmax", "kernel.shmmax", "net.ipv4.ip_forward"}

SysctlMaps == UNION {[keys -> {"0", "1"}] : keys \in SUBSET SysctlKeys}

\* The orders in which `range` may visit the keys of a map: the order is not
\* specified and differs from one iteration to the next.
RangeOrders(m) ==
    {o \in [1..Cardinality(DOMAIN m) -> DOMAIN m] : \A k \in DOMAIN m : \E i \in DOMAIN o : o[i] = k}

\* `for key, val := range c.Linux.Sysctl { c.SetConfigItem("lxc.sysctl."+key, val) }`
configureSysctl(m, order) ==
    [i \in DOMAIN order |-> Directive("lxc.sysctl.", order[i], m[order[i]])]

ConfigureSysctl(m) ==
    /\ \E order \in RangeOrders(m) :
          call' = Applied("configureSysctl", m, configureSysctl(m, order))
    /\ UNCHANGED root

----
\* ensureDefaultDevices: the devices of a container and their cgroup rules.

\* The longest list of devices a spec declares.
MaxDevices == 2

\* specs.LinuxDevice; mode, uid and gid are "nil" when the spec leaves them out.
Device(path, type, major, minor) ==
    [path |-> path, type |-> type, major |-> major, minor |-> minor,
     mode |-> "nil", uid |-> "nil", gid |-> "nil"]

\* specs.LinuxDeviceCgroup; major and minor are pointers: <<>> is nil, <<n>> points to n.
DeviceCgroup(allow, type, major, minor, access) ==
    [allow |-> allow, type |-> type, major |-> major, minor |-> minor, access |-> access]

defaultDevices ==
    <<Device("/dev/null", "c", 1, 3), Device("/dev/zero", "c", 1, 5),
      Device("/dev/full", "c", 1, 7), Device("/dev/random", "c", 1, 8),
      Device("/dev/urandom", "c", 1, 9), Device("/dev/tty", "c", 5, 0)>>

\* The devices and the cgroup rules that specs declare, and the users they run as.
DeclaredDevices ==
    {Device("/dev/null", "c", 1, 3), Device("/dev/null", "c", 1, 5),
     Device("/dev/tty", "c", 5, 0), Device("/dev/fuse", "c", 10, 229)}

DeviceLists == UNION {[1..n -> DeclaredDevices] : n \in 0..MaxDevices}

DeclaredRules ==
    {<<>>, <<DeviceCgroup(FALSE, "a", <<>>, <<>>, "rwm")>>,
     <<DeviceCgroup(TRUE, "c", <<10>>, <<229>>, "rw")>>}

Users == {[uid |-> 0, gid |-> 0], [uid |-> 1000, gid |-> 100]}

DeviceSpecs == [devices : DeviceLists, rules : DeclaredRules, user : Users]

\* isDeviceEnabled as it would be if no device counted as declared.
isDeviceEnabledNever(devices, dev) == FALSE

\* isDeviceEnabled: the spec declares a device at the path of dev
isDeviceEnabled(devices, dev) == \E i \in DOMAIN devices : devices[i].path = dev.path

\* addDevicePerms
addDevicePerms(spec, devType, major, minor, access) ==
    [spec EXCEPT !.rules = Append(@, DeviceCgroup(TRUE, devType, major, minor, access))]

\* addDevice
addDevice(spec, dev, mode, uid, gid, access) ==
    LET d == [dev EXCEPT !.mode = mode, !.uid = uid, !.gid = gid]
    IN  addDevicePerms([spec EXCEPT !.devices = Append(@, d)],
                       d.type, <<d.major>>, <<d.minor>>, access)

\* The loop of ensureDefaultDevices over defaultDevices from its entry i on.
RECURSIVE addMissingDefaults(_, _)
addMissingDefaults(spec, i) ==
    IF i > Len(defaultDevices) THEN spec
    ELSE IF isDeviceEnabled(spec.devices, defaultDevices[i])
    THEN addMissingDefaults(spec, i + 1)
    ELSE addMissingDefaults(
             addDevice(spec, defaultDevices[i], "0666", spec.user.uid, spec.user.gid, "rwm"),
             i + 1)

\* ensureDefaultDevices: the spec with the cgroup rules of /dev/ptmx and of the
\* /dev/pts slots, and with the default devices it did not declare.
ensureDefaultDevices(spec) ==
    LET ptmx == Device("/dev/ptmx", "c", 5, 2)
        pts0 == Device("/dev/pts/0", "c", 88, 0)
        s1 == addDevicePerms(spec, "c", <<ptmx.major>>, <<ptmx.minor>>, "rwm")
        s2 == addDevicePerms(s1, "c", <<pts0.major>>, <<>>, "rwm")
    IN  addMissingDefaults(s2, 1)

EnsureDefaultDevices(spec) ==
    /\ call' = Applied("ensureDefaultDevices", spec, ensureDefaultDevices(spec))
    /\ UNCHANGED root

----
\* configureContainer, the capabilities (Process.Capabilities).

\* The longest list of permitted capabilities of a spec.
MaxCaps == 2

CapNames ==
    {<<"C", "A", "P", "_", "K", "I", "L", "L">>,
     <<"c", "a", "p", "_", "c", "h", "o", "w", "n">>,
     <<"K", "i", "l", "l">>,
     <<"C", "A", "P", "_", "c", "a", "p", "_", "x">>}

\* c.Process.Capabilities: nil, or its Permitted list
Capabilities ==
    {[nil |-> TRUE, permitted |-> <<>>]}
        \cup {[nil |-> FALSE, permitted |-> l] :
                 l \in UNION {[1..n -> CapNames] : n \in 0..MaxCaps}}

\* strings.Join
RECURSIVE Join(_, _)
Join(elems, sep) ==
    IF elems = <<>> THEN <<>>
    ELSE IF Len(elems) = 1 THEN elems[1]
    ELSE elems[1] \o sep \o Join(Tail(elems), sep)

\* capName as it would be if the cap_ prefix were kept.
capNameUntrimmed(c) == ToLower(c)

\* `lcCapName := strings.TrimPrefix(strings.ToLower(c), "cap_")`
capName(c) == TrimPrefix(ToLower(c), <<"c", "a", "p", "_">>)

\* configureCapabilities: the directive it sets
configureCapabilities(capabilities) ==
    LET caps == [i \in DOMAIN capabilities.permitted |-> capName(capabilities.permitted[i])]
        keepCaps == IF ~capabilities.nil /\ Len(caps) > 0 THEN Join(caps, <<" ">>)
                    ELSE <<"n", "o", "n", "e">>
    IN  Directive("lxc.cap.keep", <<>>, keepCaps)

\* configureContainer, `if rt.Features.Capabilities { ... } else { rt.Log.Warn()... }`
capabilitiesSection(feature, capabilities) ==
    IF feature
    THEN [conf |-> <<configureCapabilities(capabilities)>>, logs |-> {}]
    ELSE [conf |-> <<>>,
          logs |-> {"warn: capabilities feature is disabled - running with full privileges"}]

ConfigureCapabilities(feature, capabilities) ==
    /\ call' = Applied("configureCapabilities",
                       [feature |-> feature, capabilities |-> capabilities],
                       capabilitiesSection(feature, capabilities))
    /\ UNCHANGED root

----
\* The environment of the monitor subprocess: Runtime.Init keeps variables of
\* the environment of the runtime, Runtime.runStartCmd hands them to the command.
EnvNames == {"HOME", "XDG_RUNTIME_DIR", "PATH", "LD_PRELOAD"}

\* The environments the runtime is started in: each variable unset, set to the
\* empty text or set to a value.
Environs == UNION {[names -> {"", "/v"}] : names \in SUBSET EnvNames}

\* The names Runtime.Init passes to keepEnv, in order.
KeptNames == <<"HOME", "XDG_RUNTIME_DIR", "PATH">>

\* os.Getenv
Getenv(environ, n) == IF n \in DOMAIN environ THEN environ[n] ELSE ""

\* os.Environ
Environ(environ) == {[name |-> n, val |-> environ[n]] : n \in DOMAIN environ}

\* Runtime.keepEnv over names from its entry i on; env is rt.env, nil (<<>>)
\* until the first append.
RECURSIVE keepEnv(_, _, _, _)
keepEnv(environ, names, i, env) ==
    IF i > Len(names) THEN env
    ELSE IF Getenv(environ, names[i]) # ""
    THEN keepEnv(environ, names, i + 1,
                 Append(env, [name |-> names[i], val |-> Getenv(environ, names[i])]))
    ELSE keepEnv(environ, names, i + 1, env)

\* The environment exec.Cmd starts the command with: cmd.Env, and the
\* environment of the calling process when cmd.Env is nil.
cmdEnviron(cmdEnv, environ) ==
    IF cmdEnv = <<>> THEN Environ(environ) ELSE {cmdEnv[i] : i \in DOMAIN cmdEnv}

\* Runtime.Init and Runtime.runStartCmd: rt.env, and the environment of the monitor
monitorEnv(environ) ==
    LET env == keepEnv(environ, KeptNames, 1, <<>>)
    IN  [env |-> env, monitor |-> cmdEnviron(env, environ)]

MonitorEnv(environ) ==
    /\ call' = Applied("monitorEnv", environ, monitorEnv(environ))
    /\ UNCHANGED root

----
\* The AppArmor profile of the container.

\* c.Process.ApparmorProfile: no profile, or the name of one
Profiles == {"", "docker-default", "unconfined"}

\* configureApparmor: the profile of the spec, "unconfined" when it names none
configureApparmor(profile) ==
    Directive("lxc.apparmor.profile", <<>>, IF profile = "" THEN "unconfined" ELSE profile)

\* configureContainer, `if rt.Features.Apparmor { ... } else { rt.Log.Warn()... }`:
\* with the feature disabled a warning is logged and no directive is set.
apparmorSection(feature, profile) ==
    IF feature
    THEN [conf |-> <<configureApparmor(profile)>>, logs |-> {}]
    ELSE [conf |-> <<>>,
          logs |-> {"warn: apparmor feature is disabled - profile is set to unconfined"}]

ConfigureApparmor(feature, profile) ==
    /\ call' = Applied("configureApparmor", [feature |-> feature, profile |-> profile],
                       apparmorSection(feature, profile))
    /\ UNCHANGED root

----
\* runStartCmdConsole: the monitor is started on a pty whose master is handed
\* to the listener of the console socket.

\* The calls of runStartCmdConsole that return an error, in the order they are
\* made. The assertion c.(*net.UnixConn) holds for a connection dialled on
\* "unix"; conn.SetDeadline is called when the context has a deadline.
ConsoleSteps(hasDeadline) ==
    <<"dial">> \o (IF hasDeadline THEN <<"setDeadline">> ELSE <<>>)
        \o <<"connFile", "ptyStart", "sendmsg", "ptmxClose">>

ConsoleFaults == {"dial", "setDeadline", "connFile", "ptyStart", "sendmsg", "ptmxClose"}

\* `defer c.Close()`, registered once the dial has succeeded: the connection
\* is closed when the function returns.
closeDeferred(dialled) == IF dialled THEN <<<<"connClose", "nil">>>> ELSE <<>>

\* runStartCmdConsole with the calls in f failing: the calls made in order up
\* to the first that fails, and what the function leaves behind. sockFile is
\* the copy of the connection's descriptor that conn.File() returns; the
\* function never closes it, so it is closed only if its finalizer has run
\* (finalized). ptmx is the pty master; child is the started command.
runStartCmdConsole(f, hasDeadline, finalized) ==
    LET steps == ConsoleSteps(hasDeadline)
        bad == {i \in DOMAIN steps : steps[i] \in f}
        stop == IF bad = {} THEN Len(steps) ELSE CHOOSE i \in bad : \A j \in bad : i <= j
        made == [i \in 1..stop |-> <<steps[i], Fault(steps[i], f)>>]
        ok(step) == <<step, "nil">> \in {made[i] : i \in 1..stop}
        calls == made \o closeDeferred(ok("dial"))
    IN  [err |-> IF bad = {} THEN "nil" ELSE steps[stop],
         calls |-> calls,
         conn |-> IF ~ok("dial") THEN "none"
                  ELSE IF "connClose" \in Steps(calls) THEN "closed" ELSE "open",
         sockFile |-> IF ~ok("connFile") THEN "none"
                      ELSE IF finalized THEN "closed" ELSE "open",
         ptmx |-> IF ~ok("ptyStart") THEN "none"
                  ELSE IF "ptmxClose" \in Steps(made) THEN "closed" ELSE "open",
         child |-> IF ok("ptyStart") THEN "alive" ELSE "none"]

RunStartCmdConsole(f, hasDeadline, finalized) ==
    /\ call' = Applied("runStartCmdConsole",
                       [f |-> f, hasDeadline |-> hasDeadline, finalized |-> finalized],
                       runStartCmdConsole(f, hasDeadline, finalized))
    /\ UNCHANGED root

----
\* Runtime.List over the runtime root, whose entries are the runtime
\* directories that Create makes and Delete removes.

\* The container IDs that callers use, as text.
ListIDs == {<<"c", "1">>, <<"c", ".">>, <<".", "c">>, <<>>}

\* A Create of id succeeds: the ID is not empty (checkConfig) and its runtime
\* directory, filepath.Join(rt.Root, id), is made by exclusive creation.
Created(id) ==
    /\ Len(id) # 0
    /\ id \notin root
    /\ root' = root \cup {id}
    /\ UNCHANGED call

\* A Delete of id succeeds: os.RemoveAll removes its runtime directory.
Deleted(id) ==
    /\ id \in root
    /\ root' = root \ {id}
    /\ UNCHANGED call

\* The orders in which dir.Readdirnames(-1) may return the entries: directory order.
ReaddirOrders(entries) ==
    {o \in [1..Cardinality(entries) -> entries] : \A e \in entries : \E i \in DOMAIN o : o[i] = e}

\* The loop of Runtime.List over names from its entry i on.
RECURSIVE visibleFrom(_, _, _)
visibleFrom(names, i, visible) ==
    IF i > Len(names) THEN visible
    ELSE IF names[i][1] # "." THEN visibleFrom(names, i + 1, Append(visible, names[i]))
    ELSE visibleFrom(names, i + 1, visible)

\* Runtime.List, with the error of os.Open or Readdirnames and the names read
ListResult(err, names) ==
    IF err # "nil" THEN [names |-> <<>>, err |-> err]
    ELSE [names |-> visibleFrom(names, 1, <<>>), err |-> "nil"]

List(err) ==
    /\ \E names \in ReaddirOrders(root) :
          call' = Applied("List", root, ListResult(err, names))
    /\ UNCHANGED root

ListNext ==
    \/ \E id \in ListIDs : Created(id) /\ UNCHANGED <<vars, timedVars>>
    \/ \E id \in ListIDs : Deleted(id) /\ UNCHANGED <<vars, timedVars>>
    \/ \E err \in {"nil", "err"} : List(err) /\ UNCHANGED <<vars, timedVars>>

ListSpec == Init /\ [][ListNext]_pureVars

----
PureNext ==
    \/ \E limits \in RlimitLists :
           ConfigureRlimits(limits) /\ UNCHANGED <<vars, timedVars>>
    \/ \E m \in SysctlMaps :
           ConfigureSysctl(m) /\ UNCHANGED <<vars, timedVars>>
    \/ \E spec \in DeviceSpecs :
           EnsureDefaultDevices(spec) /\ UNCHANGED <<vars, timedVars>>
    \/ \E feature \in BOOLEAN, capabilities \in Capabilities :
           ConfigureCapabilities(feature, capabilities) /\ UNCHANGED <<vars, timedVars>>
    \/ \E environ \in Environs :
           MonitorEnv(environ) /\ UNCHANGED <<vars, timedVars>>
    \/ \E feature \in BOOLEAN, profile \in Profiles :
           ConfigureApparmor(feature, profile) /\ UNCHANGED <<vars, timedVars>>
    \/ \E f \in FaultSets(ConsoleFaults), hasDeadline \in BOOLEAN, finalized \in BOOLEAN :
           RunStartCmdConsole(f, hasDeadline, finalized) /\ UNCHANGED <<vars, timedVars>>

PureSpec == Init /\ [][PureNext]_pureVars

----
\* Properties of the operations, read off the last operation and its trace.

\* No step of the last operation after Load returned an error.
NoStepFailed ==
    \A i \in DOMAIN trace :
        trace[i][1] \notin {"stat", "load"} => trace[i][2] \in {"nil", "ENOENT"}

\* C1: Start succeeds only when the observed state is "created"; in every other
\* observed state Start returns an error, the start signal is not sent to the
\* init process and the state of the container is what it was.
C1_StartOnlyFromCreated ==
    last.op = "Start" =>
        /\ (last.res = "ok" => last.obs = StateCreated)
        /\ (last.obs \in States \ {StateCreated} =>
               /\ last.res = "ErrInvalidState"
               /\ ~Ran("start")
               /\ status[last.id] = last.obs)

C1_Witness ==
    last.op = "Start" /\ last.obs = StateRunning /\ last.res = "ErrInvalidState"

\* C2: Kill on a container observed stopped returns an error and delivers no
\* signal; in every other observed state it passes the given signal on and
\* returns the result of that delivery.
C2_KillRefusedOnlyWhenStopped ==
    last.op = "Kill" =>
        /\ (last.obs = StateStopped =>
               last.res = "ErrStopped" /\ last.sent = "-" /\ ~Ran("kill"))
        /\ (last.obs \in States \ {StateStopped} =>
               /\ Ran("kill")
               /\ last.sent = last.sig
               /\ last.res \in {"ok", "ErrKill"}
               /\ (last.res = "ok" <=> ~Failed("kill")))

C2_Witness ==
    last.op = "Kill" /\ last.obs = StateStopped /\ last.res = "ErrStopped"

\* C3: Delete without force on a stopped container succeeds and removes the
\* runtime directory; Delete without force on a container that is not stopped
\* fails with a state error, sends no signal and goes no further than the
\* state check (directory and cgroup are left as they are); Delete with force
\* on such a container sends SIGKILL before any teardown step and then
\* succeeds with the directory removed. (Success is that of a Delete none of
\* whose steps fails; C4 is about the failing steps.)
C3_DeleteStateAndForce ==
    last.op = "Delete" =>
        /\ (last.obs = StateStopped /\ ~last.force /\ NoStepFailed =>
               last.res = "ok" /\ last.id \notin dirs /\ last.sent = "-")
        /\ (last.obs \in States \ {StateStopped} /\ ~last.force =>
               /\ last.res = "ErrInvalidState"
               /\ last.sent = "-"
               /\ Steps(trace) = {"stat", "load", "state"}
               /\ last.id \in dirs
               /\ SnapshotFile \in files[last.id])
        /\ (last.obs \in States \ {StateStopped} /\ last.force =>
               /\ last.sent = SIGKILL
               /\ Ran("kill")
               /\ \A s \in Steps(trace) \ {"stat", "load", "state", "kill"} : Before("kill", s)
               /\ (NoStepFailed => last.res = "ok" /\ last.id \notin dirs))

C3_Witness ==
    /\ last.op = "Delete" /\ last.obs = StateRunning /\ last.force
    /\ last.res = "ok" /\ last.id \notin dirs

C5_MissingEventsFileTolerated ==
    (last.op = "Delete" /\ "ENOENT" \in ErrOf("pollCgroupEvents")) =>
        /\ "warn: failed to wait until cgroup.events populated=0" \notin logs
        /\ Ran("deleteCgroup")
        /\ ("ENOENT" \in ErrOf("deleteCgroup") =>
               /\ last.res # "ErrCgroup"
               /\ (Ran("hookState") /\ ~Failed("hookState") => Ran("poststop"))
               /\ (~Failed("hookState") => Ran("removeAll"))
               /\ (~Failed("hookState") /\ ~Failed("removeAll") =>
                      last.res = "ok" /\ last.id \notin dirs))

C5_Witness ==
    /\ last.op = "Delete" /\ "ENOENT" \in ErrOf("pollCgroupEvents")
    /\ "ENOENT" \in ErrOf("deleteCgroup") /\ Ran("poststop") /\ last.res = "ok"

\* C6: when the runtime directory exists and its record cannot be loaded,
\* Delete removes the directory recursively and returns the result of that
\* removal; it reads no state, sends no signal, touches no cgroup and runs no
\* hook, whatever the force flag.
C6_UnloadableFallback ==
    (last.op = "Delete" /\ "err" \in ErrOf("load")) =>
        /\ Steps(trace) = {"stat", "load", "removeAll"}
        /\ last.sent = "-"
        /\ last.obs = "-"
        /\ "warn: deleting runtime dir for unloadable container" \in logs
        /\ (last.res = "ok" <=> ~Failed("removeAll"))
        /\ (last.res = "ok" <=> last.id \notin dirs)
        /\ (last.res # "ok" => last.res = "ErrRemove")

C6_Witness ==
    /\ last.op = "Delete" /\ "err" \in ErrOf("load") /\ ~last.force
    /\ last.res = "ok" /\ last.id \notin dirs

\* C7: Load and Delete return ErrNotExist exactly when the runtime directory
\* of the container does not exist (so a directory whose record fails to load
\* never gives the sentinel), and a Delete that returns it changes nothing.
C7_SentinelIffNoDirectory ==
    [][(last'.op \in {"Load", "Delete"}) =>
          /\ (last'.res = ErrNotExist <=> last'.id \notin dirs)
          /\ (last'.res = ErrNotExist =>
                 UNCHANGED <<dirs, files, hooks, status, mon, cg, creates>>)]_vars

C7_Witness ==
    last.op = "Load" /\ last.res = "ErrLoad" /\ last.id \in dirs

\* C8: Create of a spec that shares the mount namespace of the runtime fails
\* in validation, before the runtime directory is made: no step after the
\* validation runs, no directory or file appears and no monitor is started.
C8_SharedMountNamespaceRejected ==
    [][(last'.op = "Create" /\ last'.cfg.mntns = "shared") =>
          /\ last'.res = "ErrValidate"
          /\ Steps(trace') = {"checkConfig"}
          /\ UNCHANGED <<dirs, files, hooks, status, mon, cg, creates>>]_vars

C8_Witness ==
    /\ last.op = "Create" /\ last.cfg.mntns = "shared"
    /\ last.res = "ErrValidate" /\ last.id \notin dirs

\* C9: Create makes the runtime directory by exclusive creation: when the
\* directory of the ID exists, Create fails, compiles no configuration, starts
\* no monitor and leaves directory, files and processes as they are; so a
\* Create succeeds only when the directory did not exist, a directory goes
\* away only by Delete, and no ID has two successful Creates without a removal
\* of its directory in between.
C9_ExclusiveCreate ==
    [][/\ (last'.op = "Create" /\ last'.id \in dirs) =>
             /\ last'.res \in {"ErrExist", "ErrValidate"}
             /\ (last'.res = "ErrExist" <=> "exists" \in {trace'[i][2] : i \in DOMAIN trace'})
             /\ Steps(trace') \cap {"configure", "saveConfig", "startMonitor",
                                    "writeSnapshot", "waitCreated"} = {}
             /\ UNCHANGED <<dirs, files, hooks, status, mon, cg, creates>>
       /\ (last'.op = "Create" /\ last'.res = "ok") =>
             last'.id \notin dirs /\ last'.id \in dirs'
       /\ (\E id \in dirs : id \notin dirs') => last'.op = "Delete"
       /\ \A id \in IDs : creates'[id] <= 1]_vars

C9_Witness ==
    last.op = "Create" /\ last.res = "ErrExist" /\ creates[last.id] = 1

\* The results of a Create that failed after it made the runtime directory.
FailedAfterCreate == {"ErrConfigure", "ErrSave", "ErrStart", "ErrSnapshot", "ErrWait"}

\* C10 as stated: a Create that fails after it made the runtime directory
\* leaves the directory, and the Delete that follows removes it.
C10_DeleteAlwaysReclaims ==
    [][/\ (last'.op = "Create" /\ last'.res \in FailedAfterCreate) => last'.id \in dirs'
       /\ (/\ last.op = "Create" /\ last.res \in FailedAfterCreate
           /\ last'.op = "Delete" /\ last'.id = last.id
           /\ \A i \in DOMAIN trace' :
                 trace'[i][1] \notin {"stat", "load"} => trace'[i][2] \in {"nil", "ENOENT"})
          => last'.res = "ok" /\ last'.id \notin dirs']_vars

\* C10 as amended: a Create that fails after it made the runtime directory
\* leaves the directory. The Delete that follows, if none of its steps fails,
\* removes it when the record is unloadable (Create failed before it wrote the
\* snapshot), when the container is observed stopped, or when force is set;
\* without force, while the container left by the failed Create is not
\* stopped, Delete fails with a state error and the directory stays.
C10_NoRollbackDeleteReclaims ==
    [][/\ (last'.op = "Create" /\ last'.res \in FailedAfterCreate) => last'.id \in dirs'
       /\ (/\ last.op = "Create" /\ last.res \in FailedAfterCreate
           /\ last'.op = "Delete" /\ last'.id = last.id
           /\ \A i \in DOMAIN trace' :
                 trace'[i][1] \notin {"stat", "load"} => trace'[i][2] \in {"nil", "ENOENT"})
          => /\ (last.res \in {"ErrConfigure", "ErrSave", "ErrStart", "ErrSnapshot"}
                    => last'.res = "ok" /\ last'.id \notin dirs')
             /\ (last'.force \/ last'.obs = StateStopped
                    => last'.res = "ok" /\ last'.id \notin dirs')
             /\ (~last'.force /\ last'.obs \in States \ {StateStopped}
                    => last'.res = "ErrInvalidState" /\ last'.id \in dirs')]_vars

C10_Witness ==
    /\ last.op = "Create" /\ last.res = "ErrWait" /\ last.id \in dirs
    /\ status[last.id] = StateCreating /\ mon[last.id] = "alive"

----
\* C12: a Create whose deadline expires in the wait for the monitor returns an
\* error and sends the monitor no signal: the monitor it started is still
\* running and the runtime directory stays. Load, Start and Kill leave the
\* monitor as it is, and a Delete with force of a loadable
\* container whose monitor runs, none of whose steps fails, succeeds and leaves
\* neither a running monitor nor the runtime directory.
C12_ExpiredCreateLeavesMonitor ==
    [][/\ (last'.op = "Create" /\ \E i \in DOMAIN trace' : trace'[i] = <<"waitCreated", "timeout">>)
             => /\ last'.res = "ErrWait"
                /\ "kill" \notin Steps(trace')
                /\ mon'[last'.id] = "alive"
                /\ last'.id \in dirs'
       /\ last'.op \in {"Load", "Start", "Kill"} => mon' = mon
       /\ (/\ last'.op = "Delete" /\ last'.force
           /\ mon[last'.id] = "alive" /\ LoadResult(last'.id) = "nil"
           /\ \A i \in DOMAIN trace' : trace'[i][2] \in {"nil", "ENOENT"})
             => /\ last'.res = "ok"
                /\ last'.id \notin dirs'
                /\ mon'[last'.id] # "alive"]_vars

C12_Witness ==
    /\ last.op = "Delete" /\ last.force /\ last.obs = StateCreating
    /\ last.res = "ok" /\ last.id \notin dirs /\ mon[last.id] = "none"

----
\* The place of a state in the lifecycle; "none": no container process yet.
Rank(state) ==
    CASE state = "none" -> 0 [] state = StateCreating -> 1 [] state = StateCreated -> 2
      [] state = StateRunning -> 3 [] state = StateStopped -> 4

\* C19: while the runtime directory of a container exists its state only moves
\* forward through creating, created, running, stopped. Stopped is terminal: a
\* Start or a Kill of a container observed stopped fails and changes nothing,
\* no Create, Start or Kill of a stopped container succeeds, and a stopped
\* container leaves that state only by a successful Delete, which removes its
\* runtime directory.
C19_LifecycleForward ==
    [][\A id \in IDs :
          /\ (id \in dirs /\ id \in dirs') => Rank(status'[id]) >= Rank(status[id])
          /\ (id \in dirs /\ status[id] = StateStopped /\ status'[id] # StateStopped)
                => last'.op = "Delete" /\ last'.id = id /\ last'.res = "ok" /\ id \notin dirs'
          /\ (last'.op \in {"Start", "Kill"} /\ last'.id = id /\ last'.obs = StateStopped)
                => /\ last'.res \in {"ErrInvalidState", "ErrStopped"}
                   /\ last'.sent = "-"
                   /\ UNCHANGED <<dirs, files, hooks, status, mon, cg, creates>>
          /\ (/\ last'.op \in {"Create", "Start", "Kill"} /\ last'.id = id
              /\ id \in dirs /\ status[id] = StateStopped)
                => last'.res # "ok"
          /\ (last'.op = "Delete" /\ last'.id = id /\ last'.res = "ok") => id \notin dirs']_vars

C19_Witness ==
    /\ last.op = "Start" /\ last.obs = StateStopped /\ last.res = "ErrInvalidState"
    /\ status[last.id] = StateStopped /\ last.id \in dirs

\* C25 as stated: whenever Delete has returned success for a container ID, the
\* monitor process that a Create started for that ID is not running, whatever
\* the outcome of that Create and whichever path Delete took.
C25_DeleteLeavesNoMonitor ==
    (last.op = "Delete" /\ last.res = "ok") => mon[last.id] # "alive"

\* The teardown steps of Delete in the order of the claim; hookState is the
\* read of the container state that the post-stop hooks are given.
TeardownOrder ==
    <<"kill", "waitMonitorStopped", "destroy", "pollCgroupEvents", "deleteCgroup",
      "hookState", "poststop", "removeAll">>

Place(step) == CHOOSE i \in DOMAIN TeardownOrder : TeardownOrder[i] = step

\* The steps of the last operation that are teardown steps, by position.
TeardownAt == {i \in DOMAIN trace : \E k \in DOMAIN TeardownOrder : TeardownOrder[k] = trace[i][1]}

\* C26: a Delete that has loaded its container runs its teardown steps in the
\* fixed order, each at most once, the kill only when forced, and the removal
\* of the runtime directory last; a Delete that returns success has run the
\* wait, the destroy, the cgroup drain and removal and the directory removal;
\* a Delete that returns an error leaves the runtime directories and their
\* files as they were, so the directory exists, what List reads is unchanged,
\* and the record can be loaded by the next Delete.
C26_TeardownOrderDirectoryLast ==
    /\ []((last.op = "Delete" /\ Ran("state")) =>
            /\ \A i, j \in TeardownAt : i < j => Place(trace[i][1]) < Place(trace[j][1])
            /\ Ran("kill") => last.force
            /\ Ran("removeAll") => trace[Len(trace)][1] = "removeAll"
            /\ last.res = "ok" =>
                   /\ {"waitMonitorStopped", "destroy", "pollCgroupEvents",
                       "deleteCgroup", "removeAll"} \subseteq Steps(trace)
                   /\ last.id \notin dirs
            /\ last.res # "ok" => last.id \in dirs /\ LoadResult(last.id) = "nil")
    /\ [][(last'.op = "Delete" /\ last'.res # "ok") => dirs' = dirs /\ files' = files]_vars
    /\ [][(last'.op = "Delete" /\ dirs' # dirs) =>
              trace'[Len(trace')] = <<"removeAll", "nil">>]_vars

\* A forced Delete killed the container, destroyed the backend container and
\* failed at the removal of the cgroup.
C26_Witness ==
    /\ last.op = "Delete" /\ last.force /\ last.res = "ErrCgroup"
    /\ Ran("kill") /\ Ran("destroy") /\ ~Ran("removeAll")
    /\ last.id \in dirs

----
\* Properties of a call of Create followed step by step (TimedCreate).

\* C11: a Create that waits for its monitor returns: while the "container
\* created" signal is not raised, the wait ends, with a failure, when the
\* deadline of the call has expired or when the monitor has exited; the
\* deadline failure is never given before the deadline, and Create returns
\* success only after the signal was raised.
C11_CreateEnforcesDeadline ==
    /\ [](result = "ok" => created)
    /\ [](result = "failed: deadline exceeded" => clock >= CreateTimeout)
    /\ [](pc = "returned" /\ ~created /\ child # "none" =>
             result \in {"failed: deadline exceeded", "failed: monitor exited",
                         "failed: startMonitor", "failed: writeSnapshot"})
    /\ (pc = "waitCreated") ~> (pc = "returned" \/ created)

C11_Witness ==
    /\ pc = "returned" /\ result = "failed: deadline exceeded"
    /\ ~created /\ child = "alive"

\* C20 as stated: the after-create hook is invoked only after every step of
\* Create succeeded, and Create has returned its result to the caller while
\* the hook runs.
C20_HookDoesNotBlockCreate ==
    /\ (hook # "none" => afterCreate /\ created /\ child # "none")
    /\ (hook = "running" => pc = "returned" /\ result = "ok")

\* C20 as amended: the after-create hook is invoked only after every step of
\* Create succeeded, never by a Create that fails. It is run by a deferred call
\* of Create itself: while the hook runs Create has not returned, and Create
\* returns success to its caller only once the hook has returned; a hook that
\* never returns blocks Create, also beyond the deadline of the call.
C20_HookRunsBeforeReturn ==
    /\ (hook # "none" => afterCreate /\ created /\ child # "none")
    /\ (hook = "running" => pc = "afterCreate" /\ result = "-")
    /\ (pc = "returned" /\ result # "ok" => hook = "none")
    /\ (pc = "returned" /\ result = "ok" => hook = (IF afterCreate THEN "done" ELSE "none"))

C20_Witness ==
    /\ hook = "running" /\ pc = "afterCreate" /\ result = "-"
    /\ clock >= CreateTimeout

\* The directives the configuration of a call holds once it is complete.
AllDirectives(mode) ==
    {"spec"} \cup IF mode.ConsoleSocket = "" /\ ~mode.Terminal
                  THEN {"lxc.console.path"} ELSE {}

\* C21: in a call of Create the config file is written at most once, what is
\* written is the complete configuration (the console-path directive included
\* when the container has neither a console socket nor a terminal), the monitor
\* is started only once the file is written, the configuration is not changed
\* after it was written, and a call whose save failed starts no monitor.
C21_ConfigSavedOnceBeforeStart ==
    /\ [](/\ writes[ConfigFile] <= 1
          /\ rtdir[ConfigFile] # <<>> =>
                 /\ writes[ConfigFile] = 1
                 /\ rtdir[ConfigFile] = <<AllDirectives(console)>>
                 /\ directives = AllDirectives(console)
          /\ child # "none" => rtdir[ConfigFile] # <<>>
          /\ result = "failed: saveConfig" => child = "none" /\ rtdir[ConfigFile] = <<>>)
    /\ [][rtdir'[ConfigFile] # rtdir[ConfigFile] => child = "none" /\ child' = "none"]_timedVars

\* A call without console socket and terminal has started its monitor.
C21_Witness ==
    /\ console = [ConsoleSocket |-> "", Terminal |-> FALSE]
    /\ child = "alive" /\ writes[ConfigFile] = 1
    /\ "lxc.console.path" \in rtdir[ConfigFile][1]

\* C22: the snapshot is written at most once per call, what is written holds
\* the PID and the creation time of a monitor that was started, a file that is
\* already at the path of the snapshot is never replaced, and a call that
\* found one fails at the write and never waits for the created signal.
C22_SnapshotExclusiveAfterStart ==
    /\ [](/\ writes[SnapshotFile] <= 1
          /\ writes[SnapshotFile] = 1 =>
                 /\ child # "none"
                 /\ rec.Pid = MonitorPid /\ rec.CreatedAt # <<>>
                 /\ rtdir[SnapshotFile] = <<Snapshot(rec)>>
          /\ rtdir[SnapshotFile] = <<ForeignSnapshot>> =>
                 /\ writes[SnapshotFile] = 0
                 /\ pc \notin {"waitCreated", "afterCreate"}
                 /\ pc = "returned" => /\ result \in {"failed: " \o CreateSteps[i] :
                                                       i \in DOMAIN CreateSteps}
                                       /\ hook = "none")
    /\ [][rtdir[SnapshotFile] # <<>> => rtdir'[SnapshotFile] = rtdir[SnapshotFile]]_timedVars

\* A call found a file at the path of the snapshot after it started its monitor.
C22_Witness ==
    /\ rtdir[SnapshotFile] = <<ForeignSnapshot>>
    /\ child = "alive" /\ result = "failed: writeSnapshot"

----
\* Properties of the functions of the configuration compiler (PureSpec).

\* Two resource limit types name the same kind of limit.
SameKind(a, b) ==
    TrimPrefix(ToLower(a), <<"r", "l", "i", "m", "i", "t", "_">>)
        = TrimPrefix(ToLower(b), <<"r", "l", "i", "m", "i", "t", "_">>)

\* The entries of a list of resource limits that repeat the kind of an earlier one.
Repeats(limits) ==
    {j \in DOMAIN limits : \E i \in 1..(j - 1) : SameKind(limits[i].type, limits[j].type)}

FirstRepeat(limits) == CHOOSE j \in Repeats(limits) : \A k \in Repeats(limits) : j <= k

\* C13 as stated: when two resource limits of a spec are of the same kind, the
\* compilation fails and no resource limit directive has been set.
C13_DuplicateLimitWritesNothing ==
    (call.fn = "configureRlimits" /\ Repeats(call.in) # {}) =>
        call.out.err # "nil" /\ call.out.conf = <<>>

\* C13 as amended: when two resource limits of a spec are of the same kind, the
\* compilation fails with a configuration error at the first entry that repeats
\* a kind; the entries before it have each had their directive set in the
\* in-memory configuration, in order, under the lower-cased name without the
\* rlimit_ prefix, and that entry and the ones after it have none. Without a
\* repeated kind every entry has its directive and there is no error.
C13_DuplicateLimitFailsAtRepeat ==
    call.fn = "configureRlimits" =>
        /\ (call.out.err = "nil" <=> Repeats(call.in) = {})
        /\ Len(call.out.conf) =
              (IF Repeats(call.in) = {} THEN Len(call.in) ELSE FirstRepeat(call.in) - 1)
        /\ \A i \in DOMAIN call.out.conf :
              /\ call.out.conf[i].stem = "lxc.prlimit."
              /\ SameKind(call.out.conf[i].name, call.in[i].type)
              /\ call.out.conf[i].name = ToLower(call.out.conf[i].name)
              /\ ~HasPrefix(call.out.conf[i].name, <<"r", "l", "i", "m", "i", "t", "_">>)
              /\ call.out.conf[i].val = <<call.in[i].soft, ":", call.in[i].hard>>

C13_Witness ==
    /\ call.fn = "configureRlimits" /\ Len(call.in) = 3 /\ FirstRepeat(call.in) = 3
    /\ call.in[1].type # call.in[3].type
    /\ SameKind(call.in[1].type, call.in[3].type)
    /\ call.out.err # "nil" /\ Len(call.out.conf) = 2

\* C14 as stated: compiling the same spec twice gives the same directives in
\* the same order, also for a spec with two or more sysctl keys.
C14_CompilationDeterministic ==
    [][(/\ call.fn = "configureSysctl" /\ call'.fn = "configureSysctl"
        /\ call'.in = call.in)
          => call'.out = call.out]_pureVars

\* The paths of a list of devices, and the places of a path in it.
Paths(devices) == {devices[i].path : i \in DOMAIN devices}
Places(devices, path) == {i \in DOMAIN devices : devices[i].path = path}

\* A device has an allow rule of its type, major and minor among the rules.
HasRule(dev, rules) ==
    \E i \in DOMAIN rules :
        /\ rules[i].allow /\ rules[i].type = dev.type
        /\ rules[i].major = <<dev.major>> /\ rules[i].minor = <<dev.minor>>

MandatoryPaths ==
    {"/dev/null", "/dev/zero", "/dev/full", "/dev/random", "/dev/urandom", "/dev/tty",
     "/dev/ptmx", "/dev/pts/0"}

RECURSIVE Words(_)
Words(s) ==
    IF \A i \in DOMAIN s : s[i] # " " THEN <<s>>
    ELSE LET sp == CHOOSE i \in DOMAIN s : s[i] = " " /\ \A j \in 1..(i - 1) : s[j] # " "
         IN  <<SubSeq(s, 1, sp - 1)>> \o Words(SubSeq(s, sp + 1, Len(s)))

\* C16: with the capabilities feature enabled there is one keep-capabilities
\* directive. For a nil capabilities section or an empty permitted list its
\* value is "none"; otherwise it is the permitted names in the order of the
\* spec, separated by single spaces, each lower-cased and with one leading cap_
\* removed (CAP_KILL, cap_chown gives "kill chown").
C16_KeepCapabilities ==
    (call.fn = "configureCapabilities" /\ call.in.feature) =>
        LET permitted == call.in.capabilities.permitted
            val == call.out.conf[1].val
            cap == <<"c", "a", "p", "_">>
        IN  /\ Len(call.out.conf) = 1
            /\ call.out.conf[1].stem = "lxc.cap.keep"
            /\ (call.in.capabilities.nil \/ permitted = <<>> => val = <<"n", "o", "n", "e">>)
            /\ (permitted # <<>> =>
                   /\ Len(Words(val)) = Len(permitted)
                   /\ \A i \in DOMAIN permitted :
                         /\ Words(val)[i] = ToLower(Words(val)[i])
                         /\ IF HasPrefix(ToLower(permitted[i]), cap)
                            THEN cap \o Words(val)[i] = ToLower(permitted[i])
                            ELSE Words(val)[i] = ToLower(permitted[i]))
            /\ (permitted = << <<"C", "A", "P", "_", "K", "I", "L", "L">>,
                               <<"c", "a", "p", "_", "c", "h", "o", "w", "n">> >>
                   => val = <<"k", "i", "l", "l", " ", "c", "h", "o", "w", "n">>)

C16_Witness ==
    /\ call.fn = "configureCapabilities" /\ call.in.feature
    /\ call.in.capabilities.permitted =
           << <<"C", "A", "P", "_", "K", "I", "L", "L">>,
              <<"c", "a", "p", "_", "c", "h", "o", "w", "n">> >>
    /\ call.out.conf[1].val = <<"k", "i", "l", "l", " ", "c", "h", "o", "w", "n">>

\* C17 as stated: whatever the environment of the runtime, also when none of
\* HOME, XDG_RUNTIME_DIR and PATH is set in it (the kept list is then empty),
\* the environment of the monitor subprocess holds variables of that list only.
C17_MonitorEnvAllowListed ==
    call.fn = "monitorEnv" =>
        /\ \A e \in call.out.monitor : e.name \in {"HOME", "XDG_RUNTIME_DIR", "PATH"}
        /\ ((\A n \in {"HOME", "XDG_RUNTIME_DIR", "PATH"} : n \notin DOMAIN call.in)
               => call.out.env = <<>> /\ call.out.monitor = {})

\* C24 as stated: the compiled configuration holds one AppArmor profile
\* directive; with the feature disabled it is "unconfined" whatever profile
\* the spec names, and a warning is logged; with the feature enabled it is the
\* profile of the spec, or "unconfined" when the spec names none.
C24_ApparmorProfileDirective ==
    call.fn = "configureApparmor" =>
        /\ Len(call.out.conf) = 1
        /\ call.out.conf[1].stem = "lxc.apparmor.profile"
        /\ call.out.conf[1].val =
               IF call.in.feature /\ call.in.profile # ""
               THEN call.in.profile ELSE "unconfined"
        /\ ~call.in.feature => call.out.logs # {}

\* The positions of a call in the calls runStartCmdConsole has made.
CallsOf(step) == {i \in DOMAIN call.out.calls : call.out.calls[i][1] = step}

\* C23 as stated: the pty master is sent over the console socket once, after
\* the monitor was started on the pty and never before or without it, the
\* send is not repeated whatever it returns, and once the connection was
\* opened the function returns with the connection closed: its Close was
\* called after every other call, and no descriptor of the connection is left
\* open.
C23_ConsoleHandOff ==
    call.fn = "runStartCmdConsole" =>
        /\ Cardinality(CallsOf("sendmsg")) <= 1
        /\ CallsOf("sendmsg") # {} <=> <<"ptyStart", "nil">> \in
               {call.out.calls[i] : i \in DOMAIN call.out.calls}
        /\ \A i \in CallsOf("sendmsg") : \E j \in CallsOf("ptyStart") : j < i
        /\ CallsOf("sendmsg") # {} => call.out.child = "alive"
        /\ call.out.err = "nil" => Cardinality(CallsOf("sendmsg")) = 1
        /\ call.out.conn # "none" =>
               /\ call.out.conn = "closed"
               /\ CallsOf("connClose") = {Len(call.out.calls)}
               /\ call.out.sockFile # "open"

----
\* Properties of Runtime.List (ListSpec).

\* C18 as stated: after any successful Creates and Deletes, a List that
\* returns no error returns names that do not start with a dot, each once, and
\* an ID is among them exactly when its runtime directory exists; on an empty
\* runtime root it returns the empty sequence.
C18_ListIffDirectoryExists ==
    (call.fn = "List" /\ call.in = root /\ call.out.err = "nil") =>
        LET names == call.out.names
        IN  /\ \A i \in DOMAIN names : names[i][1] # "."
            /\ \A i, j \in DOMAIN names : names[i] = names[j] => i = j
            /\ \A id \in ListIDs : (\E i \in DOMAIN names : names[i] = id) <=> id \in root
            /\ (root = {} => names = <<>>)
====
